---- MODULE Spec2Model ----
(***************************************************************************)
(* A model of paysage/models/hidden.py: the LatentModel engine and the     *)
(* three energy models (RestrictedBoltzmannMachine, HopfieldModel,         *)
(* GaussianRestrictedBoltzmannMachine).                                    *)
(*                                                                         *)
(* Tensors are objects on a heap (a sequence; an object's address is its   *)
(* index), so that copies, aliases and in-place updates are told apart.    *)
(* Every tensor is a matrix of integers: a sequence of rows;               *)
(* a 1-d numpy array is a matrix of one row.                               *)
(***************************************************************************)
EXTENDS Integers, Sequences, FiniteSets, TLC

VARIABLES
    kind,           \* which class was constructed
    layers,         \* self.layers: role -> unit type
    params,         \* self.params: name -> address of the tensor
    constraints,    \* self.constraints: an insertion-ordered dict, <<key, name>> pairs
    penalty,        \* self.penalty: name -> penalty object
    hidden_bias,    \* HopfieldModel.hidden_bias (address; 0 when the class has none)
    hidden_scale,   \* HopfieldModel.hidden_scale (address; 0 when the class has none)
    heap,           \* the tensors
    rng,            \* the state of the random source the layers draw from
    vis,            \* address of the caller's tensor
    beta,           \* the caller's beta
    ret,            \* address of the tensor the last call returned (0: none)
    err,            \* how the last call ended
    log,            \* the projections the last call applied, in order: <<name, address>>
    regorder,       \* history: registered keys, by their latest registration
    firstorder,     \* history: registered keys, by their first registration
    call            \* history: the last call, its arguments and the state before it

vars == <<kind, layers, params, constraints, penalty, hidden_bias, hidden_scale,
          heap, rng, vis, beta, ret, err, log, regorder, firstorder, call>>

----------------------------------------------------------------------------
(* Bounds of the model. *)

NVis == 3
NHid == 2
NBatch == 2
MaxSteps == 2
MaxCons == 2
Digits == 3
MaxWCode == 8
MaxVCode == 8
MaxBiasCode == 1
MaxBeta == 2
MaxSeed == 1
MaxIterCode == 3

----------------------------------------------------------------------------
(* Errors.  The spec's DefinitionError is Python's AssertionError (a failed *)
(* assert); its ConfigurationError would be raised in place of the          *)
(* AttributeError that getattr raises for an unknown name.                  *)

Ok == "ok"
AssertionError == "AssertionError"
AttributeError == "AttributeError"
UnboundLocalError == "UnboundLocalError"
DefinitionError == AssertionError
ConfigurationError == "ConfigurationError"

----------------------------------------------------------------------------
(* Tensor values. *)

RECURSIVE Pow(_, _)
Pow(b, k) == IF k = 0 THEN 1 ELSE b * Pow(b, k - 1)

\* the sequence f (a function on 1..n), evaluated entry by entry
Tup(f) == f \o <<>>

\* The bounded families the inputs are drawn from: the rows x cols matrix
\* whose entries are the first Digits base-`base` digits of `code`, taken in
\* turn along the rows, as values of lo..(lo + base - 1); code 0 is the zero
\* matrix.
Mat(code, rows, cols, base, lo) ==
    Tup([r \in 1..rows |-> Tup([c \in 1..cols |->
        lo + (((code \div Pow(base, ((r - 1) * cols + (c - 1)) % Digits)) - lo) % base)])])

Zeros(rows, cols) == Tup([r \in 1..rows |-> Tup([c \in 1..cols |-> 0])])
Ones(rows, cols) == Tup([r \in 1..rows |-> Tup([c \in 1..cols |-> 1])])

RECURSIVE SumSeq(_)
SumSeq(s) == IF s = <<>> THEN 0 ELSE Head(s) + SumSeq(Tail(s))

\* the matrix with entry F(i, j) at row i and column j
Build(rows, cols, F(_, _)) ==
    Tup([i \in 1..rows |-> Tup([j \in 1..cols |-> F(i, j)])])

Transpose(A) == Build(Len(A[1]), Len(A), LAMBDA c, r : A[r][c])

\* numpy.dot of two matrices
MatMul(A, B) ==
    Build(Len(A), Len(B[1]),
          LAMBDA r, c : SumSeq(Tup([k \in 1..Len(B) |-> A[r][k] * B[k][c]])))

\* numpy.dot of a (batch x n) matrix and a 1-d array of n entries: 1-d, one
\* entry per example
MatVec(A, b) ==
    Build(1, Len(A),
          LAMBDA o, r : SumSeq(Tup([k \in 1..Len(b[1]) |-> A[r][k] * b[1][k]])))

\* be.batch_dot(vis, W, hid): per example, vis[b] . W . hid[b]; 1-d
BatchDot(V, W, Hd) ==
    Build(1, Len(V),
          LAMBDA o, r :
            SumSeq(Tup([i \in 1..Len(W) |->
                V[r][i] * SumSeq(Tup([j \in 1..Len(W[1]) |-> W[i][j] * Hd[r][j]]))])))

\* F of the value of e, for a local name that is used more than once:
\* With(e, LAMBDA x : ...) is LET x == e IN ...
With(e, F(_)) == F(e)

\* the matrix of F(x) for the entries x of T
MapT(F(_), T) == Build(Len(T), Len(T[1]), LAMBDA i, j : F(T[i][j]))

----------------------------------------------------------------------------
(* The heap. *)

Alloc(H, val) == [h |-> Append(H, val), r |-> Len(H) + 1]

----------------------------------------------------------------------------
(* Python's dict, which keeps its keys in insertion order: assigning to a   *)
(* key that is present replaces the value and keeps the key's place.        *)

Keys(d) == {d[i][1] : i \in DOMAIN d}
Get(d, k) == d[CHOOSE i \in DOMAIN d : d[i][1] = k][2]
Put(d, k, v) ==
    IF k \in Keys(d)
    THEN Tup([i \in DOMAIN d |-> IF d[i][1] = k THEN <<k, v>> ELSE d[i]])
    ELSE Append(d, <<k, v>>)

\* history only: the keys ordered by their latest assignment
MoveToEnd(s, k) == Append(SelectSeq(s, LAMBDA x : x # k), k)
\* history only: the keys ordered by their first assignment
AppendNew(s, k) == IF \E i \in DOMAIN s : s[i] = k THEN s ELSE Append(s, k)

----------------------------------------------------------------------------
(* The registries the model looks names up in (paysage.constraints,        *)
(* paysage.penalties, paysage.models.initialize).                          *)

ConstraintFns == {"non_negative", "non_positive"}
PenaltyFns == {"l2_penalty", "l1_penalty"}
InitFns == {"hinton"}

ClipLo(x) == IF x < 0 THEN 0 ELSE x
ClipHi(x) == IF x > 0 THEN 0 ELSE x

\* the projection a constraint name stands for, as a map of the tensor's value
Projection(name, T) ==
    IF name = "non_negative" THEN MapT(ClipLo, T) ELSE MapT(ClipHi, T)

\* init.hinton(data, model): writes params from the data sample, in place
InitHinton(H, data) ==
    [H EXCEPT ![params["visible_bias"]] =
        Build(1, NVis, LAMBDA o, c :
                SumSeq(Tup([r \in 1..Len(H[data]) |-> H[data][r][c]])))]

----------------------------------------------------------------------------
(* Construction. *)

Kinds == {"rbm", "hopfield", "grbm"}

\* The tensors of a model, in the order __init__ creates them: weights,
\* visible_bias, then the class's own.
ModelHeap(k, W, bv, bh) ==
    CASE k = "rbm"      -> <<W, bv, bh>>
      [] k = "hopfield" -> <<W, bv, Zeros(1, NHid), Ones(1, NHid)>>
      [] k = "grbm"     -> <<W, bv, Zeros(1, NVis), bh>>

\* __init__ of the three classes: random weights, biases of zeros
NewHeap(k, W) == ModelHeap(k, W, Zeros(1, NVis), Zeros(1, NHid))

NewParams(k) ==
    CASE k = "rbm"      -> [weights |-> 1, visible_bias |-> 2, hidden_bias |-> 3]
      [] k = "hopfield" -> [weights |-> 1, visible_bias |-> 2]
      [] k = "grbm"     -> [weights |-> 1, visible_bias |-> 2, visible_scale |-> 3,
                            hidden_bias |-> 4]

\* the layers a class accepts: <<visible, hidden>>
LayerChoices(k) ==
    CASE k = "rbm"      -> {"ising", "bernoulli"} \X {"ising", "bernoulli"}
      [] k = "hopfield" -> {"ising", "bernoulli"} \X {"gaussian"}
      [] k = "grbm"     -> {"gaussian"} \X {"ising", "bernoulli"}

\* the default unit types of the constructors
DefaultLayers(k) ==
    CASE k = "rbm"      -> <<"ising", "bernoulli">>
      [] k = "hopfield" -> <<"ising", "gaussian">>
      [] k = "grbm"     -> <<"gaussian", "bernoulli">>

NoCall == [op |-> "none"]
NoBeta == [tag |-> "none", v |-> <<>>]

\* The model object: LatentModel.__init__ and the subclass's __init__ give
\* the maps; H holds the model's tensors, and the caller's tensor after them.
Construct(k, lay, H, callerT) ==
    /\ kind = k
    /\ layers = [visible |-> lay[1], hidden |-> lay[2]]
    /\ params = NewParams(k)
    /\ constraints = <<>>
    /\ penalty = <<>>
    /\ hidden_bias = IF k = "hopfield" THEN 3 ELSE 0
    /\ hidden_scale = IF k = "hopfield" THEN 4 ELSE 0
    /\ heap = Append(H, callerT)
    /\ vis = Len(H) + 1

----------------------------------------------------------------------------
(* LatentModel: constraints and penalties. *)

\* add_constraints with the assert after the assignment
RECURSIVE AddLoopAssertLate(_, _, _, _, _)
AddLoopAssertLate(cs, ro, fo, cons, i) ==
    IF i > Len(cons) THEN [c |-> cs, ro |-> ro, fo |-> fo, err |-> Ok]
    ELSE IF cons[i][1] \notin DOMAIN params
         THEN [c |-> Put(cs, cons[i][1], cons[i][2]), ro |-> ro, fo |-> fo,
               err |-> AssertionError]
         ELSE AddLoopAssertLate(Put(cs, cons[i][1], cons[i][2]),
                      MoveToEnd(ro, cons[i][1]), AppendNew(fo, cons[i][1]),
                      cons, i + 1)

\* add_constraints skipping an unknown key instead of failing
RECURSIVE AddLoopSkip(_, _, _, _, _)
AddLoopSkip(cs, ro, fo, cons, i) ==
    IF i > Len(cons) THEN [c |-> cs, ro |-> ro, fo |-> fo, err |-> Ok]
    ELSE IF cons[i][1] \notin DOMAIN params
         THEN AddLoopSkip(cs, ro, fo, cons, i + 1)
         ELSE AddLoopSkip(Put(cs, cons[i][1], cons[i][2]),
                      MoveToEnd(ro, cons[i][1]), AppendNew(fo, cons[i][1]),
                      cons, i + 1)

\* add_constraints checking every key before it registers any
RECURSIVE AddLoopAtomic(_, _, _, _, _)
AddLoopAtomic(cs, ro, fo, cons, i) ==
    IF \E j \in DOMAIN cons : cons[j][1] \notin DOMAIN params
    THEN [c |-> cs, ro |-> ro, fo |-> fo, err |-> AssertionError]
    ELSE IF i > Len(cons) THEN [c |-> cs, ro |-> ro, fo |-> fo, err |-> Ok]
         ELSE AddLoopAtomic(Put(cs, cons[i][1], cons[i][2]),
                      MoveToEnd(ro, cons[i][1]), AppendNew(fo, cons[i][1]),
                      cons, i + 1)

\* The for loop of add_constraints over cons[i..]: the dict so far, the
\* history orders, and how the loop ended.
RECURSIVE AddLoop(_, _, _, _, _)
AddLoop(cs, ro, fo, cons, i) ==
    IF i > Len(cons) THEN [c |-> cs, ro |-> ro, fo |-> fo, err |-> Ok]
    ELSE IF cons[i][1] \notin DOMAIN params
         THEN [c |-> cs, ro |-> ro, fo |-> fo, err |-> AssertionError]
         ELSE AddLoop(Put(cs, cons[i][1], cons[i][2]),
                      MoveToEnd(ro, cons[i][1]), AppendNew(fo, cons[i][1]),
                      cons, i + 1)

\* enforce_constraints walking the dict from its last key to its first
RECURSIVE EnforceLoopReversed(_, _, _)
EnforceLoopReversed(H, lg, i) ==
    IF i > Len(constraints) THEN [h |-> H, log |-> lg, err |-> Ok]
    ELSE LET key == constraints[Len(constraints) + 1 - i][1]
             name == Get(constraints, key)
         IN  IF name \notin ConstraintFns
             THEN [h |-> H, log |-> lg, err |-> AttributeError]
             ELSE EnforceLoopReversed(
                    [H EXCEPT ![params[key]] = Projection(name, H[params[key]])],
                    Append(lg, <<name, params[key]>>), i + 1)

\* The for loop of enforce_constraints over the dict's keys from the i-th:
\* the heap, the calls made, and how the loop ended.
RECURSIVE EnforceLoop(_, _, _)
EnforceLoop(H, lg, i) ==
    IF i > Len(constraints) THEN [h |-> H, log |-> lg, err |-> Ok]
    ELSE LET key == constraints[i][1]
             name == Get(constraints, key)
         IN  IF name \notin ConstraintFns
             THEN [h |-> H, log |-> lg, err |-> AttributeError]
             ELSE EnforceLoop(
                    [H EXCEPT ![params[key]] = Projection(name, H[params[key]])],
                    Append(lg, <<name, params[key]>>), i + 1)

EnforceConstraints(H) == EnforceLoop(H, <<>>, 1)

\* The maps add_constraints is called with: the dicts of at most MaxCons keys
\* naming functions of the registry, and one naming a function it lacks.
ArgKeys == {"weights", "hidden_bias", "nope"}
ConsArgs ==
    {c \in UNION {[1..n -> ArgKeys \X ConstraintFns] : n \in 0..MaxCons} :
        \A i, j \in DOMAIN c : i # j => c[i][1] # c[j][1]}
    \cup {<< <<"weights", "bogus">> >>}

Snapshot(op, arg) ==
    [op |-> op, arg |-> arg, heap0 |-> heap, constraints0 |-> constraints,
     penalty0 |-> penalty]

add_constraints(cons) ==
    LET res == AddLoop(constraints, regorder, firstorder, cons, 1)
    IN  /\ constraints' = res.c
        /\ regorder' = res.ro
        /\ firstorder' = res.fo
        /\ err' = res.err
        /\ call' = Snapshot("add_constraints", cons)
        /\ log' = <<>>
        /\ UNCHANGED <<kind, layers, params, penalty, hidden_bias, hidden_scale,
                       heap, rng, vis, beta, ret>>

enforce_constraints ==
    LET res == EnforceConstraints(heap)
    IN  /\ heap' = res.h
        /\ log' = res.log
        /\ err' = res.err
        /\ call' = Snapshot("enforce_constraints", <<>>)
        /\ UNCHANGED <<kind, layers, params, constraints, penalty, hidden_bias,
                       hidden_scale, rng, vis, beta, ret, regorder, firstorder>>

add_weight_decay(pen, method) ==
    /\ IF method \in PenaltyFns
       THEN /\ penalty' = [k \in DOMAIN penalty \cup {"weights"} |->
                              IF k = "weights" THEN <<method, pen>> ELSE penalty[k]]
            /\ err' = Ok
       ELSE /\ penalty' = penalty
            /\ err' = AttributeError
    /\ log' = <<>>
    /\ call' = Snapshot("add_weight_decay", <<method, pen>>)
    /\ UNCHANGED <<kind, layers, params, constraints, hidden_bias, hidden_scale,
                   heap, rng, vis, beta, ret, regorder, firstorder>>

\* initialize of the three classes (the same body in each)
initialize(data, method) ==
    /\ IF method \in InitFns
       THEN LET res == EnforceConstraints(InitHinton(heap, data))
            IN  /\ heap' = res.h
                /\ log' = res.log
                /\ err' = res.err
       ELSE \* the except clause prints; func is unbound at func(data, self)
            /\ heap' = heap
            /\ log' = <<>>
            /\ err' = UnboundLocalError
    /\ call' = Snapshot("initialize", <<method>>)
    /\ UNCHANGED <<kind, layers, params, constraints, penalty, hidden_bias,
                   hidden_scale, rng, vis, beta, ret, regorder, firstorder>>

----------------------------------------------------------------------------
(* beta: None, a scalar, or a numpy array of shape (batch, 1), one entry   *)
(* per example.                                                            *)

ScalarBeta(x) == [tag |-> "scalar", v |-> <<x>>]
ArrayBeta(xs) == [tag |-> "ndarray", v |-> xs]

\* what broadcasting makes of beta on example i
BetaAt(b, i) == IF b.tag = "scalar" THEN b.v[1] ELSE b.v[i]

\* result *= beta, in place
IMul(H, r, b) ==
    [H EXCEPT ![r] = Build(Len(H[r]), Len(H[r][1]),
                           LAMBDA i, j : H[r][i][j] * BetaAt(b, i))]

\* result += bias, in place: the 1-d bias is added to every row
IAdd(H, r, bias) ==
    [H EXCEPT ![r] = Build(Len(H[r]), Len(H[r][1]),
                           LAMBDA i, j : H[r][i][j] + bias[1][j])]

\* energy *= numpy.ravel(beta)**2, in place, energy 1-d with one entry per example
IMulRavelSquared(H, r, b) ==
    [H EXCEPT ![r] = Build(1, Len(H[r][1]),
                           LAMBDA o, i : H[r][1][i] * (BetaAt(b, i) * BetaAt(b, i)))]

\* energy -= x, in place, both 1-d
ISub(H, r, x) ==
    [H EXCEPT ![r] = Build(1, Len(H[r][1]), LAMBDA o, i : H[r][1][i] - x[1][i])]

\* be.exp on the values the model holds: visible_scale stays zeros
ExpInt(x) == CASE x = 0 -> 1
\* 0.5 * x on the same values
HalfInt(x) == CASE x = 0 -> 0

\* visible / scale, scale 1-d
DivRows(A, scale) ==
    Build(Len(A), Len(A[1]), LAMBDA i, j : A[i][j] \div scale[1][j])

----------------------------------------------------------------------------
(* The unit layers (paysage.layers), on integers: the mode of a Bernoulli  *)
(* unit is 1 for a positive field and 0 otherwise, of an Ising unit 1 or   *)
(* -1; the means saturate at the unit's two states; a Gaussian unit's mean *)
(* and mode are its location.  A sample is the mode of the field shifted   *)
(* by the entry's draw.                                                    *)

LayerProx(type, f) ==
    CASE type = "bernoulli" -> IF f > 0 THEN 1 ELSE 0
      [] type = "ising"     -> IF f > 0 THEN 1 ELSE -1
      [] type = "gaussian"  -> f

LayerMean(type, f) ==
    CASE type = "bernoulli" -> IF f > 1 THEN 1 ELSE IF f < 0 THEN 0 ELSE f
      [] type = "ising"     -> IF f > 1 THEN 1 ELSE IF f < -1 THEN -1 ELSE f
      [] type = "gaussian"  -> f

LayerSample(type, f, scale, u) ==
    IF type = "gaussian" THEN f + scale * u ELSE LayerProx(type, f + u)

\* the random source: a congruential generator; each entry sampled takes one draw
RngNext(s) == (3 * s + 1) % 7
Draw(s) == (s % 3) - 1
RECURSIVE Adv(_, _)
Adv(s, k) == IF k = 0 THEN s ELSE Adv(RngNext(s), k - 1)

\* layer.mean(field) and layer.prox(field): a Gaussian layer returns the
\* field it was given, the others a new tensor
layer_mean(H, type, f) ==
    IF type = "gaussian" THEN [h |-> H, r |-> f]
    ELSE Alloc(H, MapT(LAMBDA x : LayerMean(type, x), H[f]))

layer_prox(H, type, f) ==
    IF type = "gaussian" THEN [h |-> H, r |-> f]
    ELSE Alloc(H, MapT(LAMBDA x : LayerProx(type, x), H[f]))

\* layer.sample_state(field[, scale]): a new tensor, and the random source
\* advanced by one draw per entry
layer_sample_state(H, type, f, scale, s) ==
    LET F == H[f]
        n == Len(F[1])
        T == Build(Len(F), n, LAMBDA i, j :
                LayerSample(type, F[i][j], scale[1][j], Draw(Adv(s, (i - 1) * n + j))))
    IN  [h |-> Append(H, T), r |-> Len(H) + 1, s |-> Adv(s, Len(F) * n)]

----------------------------------------------------------------------------
(* The fields of the three models.  Each returns the heap and the address  *)
(* of the new tensor `result`.                                             *)

RBM_hidden_field(H, visible, b) ==
    With(Alloc(H, MatMul(H[visible], H[params["weights"]])), LAMBDA d :
    With(IF b.tag # "none" THEN IMul(d.h, d.r, b) ELSE d.h, LAMBDA H1 :
        [h |-> IAdd(H1, d.r, H1[params["hidden_bias"]]), r |-> d.r]))

RBM_visible_field(H, hidden, b) ==
    With(Alloc(H, MatMul(H[hidden], Transpose(H[params["weights"]]))), LAMBDA d :
    With(IF b.tag # "none" THEN IMul(d.h, d.r, b) ELSE d.h, LAMBDA H1 :
        [h |-> IAdd(H1, d.r, H1[params["visible_bias"]]), r |-> d.r]))

Hopfield_hidden_loc(H, visible, b) ==
    With(Alloc(H, MatMul(H[visible], H[params["weights"]])), LAMBDA d :
    With(IF b.tag # "none" THEN IMul(d.h, d.r, b) ELSE d.h, LAMBDA H1 :
        [h |-> IAdd(H1, d.r, H1[hidden_bias]), r |-> d.r]))

Hopfield_visible_field(H, hidden, b) ==
    With(Alloc(H, MatMul(H[hidden], Transpose(H[params["weights"]]))), LAMBDA d :
    With(IF b.tag # "none" THEN IMul(d.h, d.r, b) ELSE d.h, LAMBDA H1 :
        [h |-> IAdd(H1, d.r, H1[params["visible_bias"]]), r |-> d.r]))

GRBM_hidden_field(H, visible, b) ==
    With(Alloc(H, MapT(ExpInt, H[params["visible_scale"]])), LAMBDA scale :
    With(Alloc(scale.h, DivRows(scale.h[visible], scale.h[scale.r])), LAMBDA vs :
    With(Alloc(vs.h, MatMul(vs.h[vs.r], vs.h[params["weights"]])), LAMBDA d :
    With(IF b.tag = "ndarray" THEN IMul(d.h, d.r, b) ELSE d.h, LAMBDA H1 :
        [h |-> IAdd(H1, d.r, H1[params["hidden_bias"]]), r |-> d.r]))))

GRBM_visible_loc(H, hidden, b) ==
    With(Alloc(H, MatMul(H[hidden], Transpose(H[params["weights"]]))), LAMBDA d :
    With(IF b.tag = "ndarray" THEN IMul(d.h, d.r, b) ELSE d.h, LAMBDA H1 :
        [h |-> IAdd(H1, d.r, H1[params["visible_bias"]]), r |-> d.r]))

\* self._hidden_field / self._hidden_loc of the class constructed
HiddenField(H, visible, b) ==
    CASE kind = "rbm"      -> RBM_hidden_field(H, visible, b)
      [] kind = "hopfield" -> Hopfield_hidden_loc(H, visible, b)
      [] kind = "grbm"     -> GRBM_hidden_field(H, visible, b)

\* self._visible_field / self._visible_loc of the class constructed
VisibleField(H, hidden, b) ==
    CASE kind = "rbm"      -> RBM_visible_field(H, hidden, b)
      [] kind = "hopfield" -> Hopfield_visible_field(H, hidden, b)
      [] kind = "grbm"     -> GRBM_visible_loc(H, hidden, b)

\* marginal_free_energy scaling the quadratic term by beta, not beta squared
Hopfield_marginal_free_energy_beta_once(H, visible, b) ==
    With(H[params["weights"]], LAMBDA W :
    With(Alloc(H, MatMul(W, Transpose(W))), LAMBDA J :
    With(Alloc(J.h, BatchDot(J.h[visible], J.h[J.r], J.h[visible])), LAMBDA bd :
    With(Alloc(bd.h, MapT(LAMBDA x : 0 - x, bd.h[bd.r])), LAMBDA energy :
    With(IF b.tag # "none"
         THEN [energy.h EXCEPT ![energy.r] =
                 Build(1, Len(energy.h[energy.r][1]),
                       LAMBDA o, i : energy.h[energy.r][1][i] * BetaAt(b, i))]
         ELSE energy.h, LAMBDA H1 :
    With(Alloc(H1, MatVec(H1[visible], H1[params["visible_bias"]])), LAMBDA vb :
        [h |-> ISub(vb.h, energy.r, vb.h[vb.r]), r |-> energy.r]))))))

\* HopfieldModel.marginal_free_energy
Hopfield_marginal_free_energy(H, visible, b) ==
    With(H[params["weights"]], LAMBDA W :
    With(Alloc(H, MatMul(W, Transpose(W))), LAMBDA J :
    With(Alloc(J.h, BatchDot(J.h[visible], J.h[J.r], J.h[visible])), LAMBDA bd :
    With(Alloc(bd.h, MapT(LAMBDA x : 0 - x, bd.h[bd.r])), LAMBDA energy :
    With(IF b.tag # "none" THEN IMulRavelSquared(energy.h, energy.r, b)
         ELSE energy.h, LAMBDA H1 :
    With(Alloc(H1, MatVec(H1[visible], H1[params["visible_bias"]])), LAMBDA vb :
        [h |-> ISub(vb.h, energy.r, vb.h[vb.r]), r |-> energy.r]))))))

----------------------------------------------------------------------------
(* Sampling, means and modes of the class constructed.  The sampling ones  *)
(* also return the random source.                                          *)

sample_hidden(H, visible, b, s) ==
    With(HiddenField(H, visible, b), LAMBDA f :
        layer_sample_state(f.h, layers.hidden, f.r,
            IF kind = "hopfield" THEN f.h[hidden_scale] ELSE Ones(1, NHid), s))

sample_visible(H, hidden, b, s) ==
    IF kind = "grbm"
    THEN With(Alloc(H, MapT(LAMBDA x : ExpInt(HalfInt(x)),
                            H[params["visible_scale"]])), LAMBDA scale :
         With(VisibleField(scale.h, hidden, b), LAMBDA f :
            layer_sample_state(f.h, layers.visible, f.r, f.h[scale.r], s)))
    ELSE With(VisibleField(H, hidden, b), LAMBDA f :
            layer_sample_state(f.h, layers.visible, f.r, Ones(1, NVis), s))

hidden_mean(H, visible, b) ==
    With(HiddenField(H, visible, b), LAMBDA f : layer_mean(f.h, layers.hidden, f.r))

hidden_mode(H, visible, b) ==
    With(HiddenField(H, visible, b), LAMBDA f : layer_prox(f.h, layers.hidden, f.r))

visible_mean(H, hidden, b) ==
    With(VisibleField(H, hidden, b), LAMBDA f : layer_mean(f.h, layers.visible, f.r))

visible_mode(H, hidden, b) ==
    With(VisibleField(H, hidden, b), LAMBDA f : layer_prox(f.h, layers.visible, f.r))

----------------------------------------------------------------------------
(* LatentModel: the steps and the iteration drivers. *)

\* astype without the copy: the caller's tensor itself
astype_no_copy(H, v) == [h |-> H, r |-> v]

\* vis.astype(vis.dtype): a copy
astype(H, v) == Alloc(H, H[v])

mcstep(H, v, b, s) ==
    With(sample_hidden(H, v, b, s), LAMBDA hid :
        sample_visible(hid.h, hid.r, b, hid.s))

mean_field_step(H, v, b) ==
    With(hidden_mean(H, v, b), LAMBDA hid : visible_mean(hid.h, hid.r, b))

deterministic_step(H, v, b) ==
    With(hidden_mode(H, v, b), LAMBDA hid : visible_mode(hid.h, hid.r, b))

\* the for loop of markov_chain, t steps left to do
RECURSIVE MarkovLoop(_, _, _, _, _)
MarkovLoop(H, new_vis, t, b, s) ==
    IF t = 0 THEN [h |-> H, r |-> new_vis, s |-> s]
    ELSE With(mcstep(H, new_vis, b, s), LAMBDA st :
            MarkovLoop(st.h, st.r, t - 1, b, st.s))

\* markov_chain with every step taken from the caller's tensor
RECURSIVE MarkovLoopFromVis(_, _, _, _, _, _)
MarkovLoopFromVis(H, v, new_vis, t, b, s) ==
    IF t = 0 THEN [h |-> H, r |-> new_vis, s |-> s]
    ELSE With(mcstep(H, v, b, s), LAMBDA st :
            MarkovLoopFromVis(st.h, v, st.r, t - 1, b, st.s))

markov_chain_from_vis(H, v, steps, b, s) ==
    With(astype(H, v), LAMBDA c : MarkovLoopFromVis(c.h, v, c.r, steps, b, s))

markov_chain(H, v, steps, b, s) ==
    With(astype(H, v), LAMBDA c : MarkovLoop(c.h, c.r, steps, b, s))

RECURSIVE MeanFieldLoop(_, _, _, _)
MeanFieldLoop(H, new_vis, t, b) ==
    IF t = 0 THEN [h |-> H, r |-> new_vis]
    ELSE With(mean_field_step(H, new_vis, b), LAMBDA st :
            MeanFieldLoop(st.h, st.r, t - 1, b))

\* mean_field_iteration not passing beta on to the step
mean_field_iteration_no_beta(H, v, steps, b) ==
    With(astype(H, v), LAMBDA c : MeanFieldLoop(c.h, c.r, steps, NoBeta))

mean_field_iteration(H, v, steps, b) ==
    With(astype(H, v), LAMBDA c : MeanFieldLoop(c.h, c.r, steps, b))

RECURSIVE DeterministicLoop(_, _, _, _)
DeterministicLoop(H, new_vis, t, b) ==
    IF t = 0 THEN [h |-> H, r |-> new_vis]
    ELSE With(deterministic_step(H, new_vis, b), LAMBDA st :
            DeterministicLoop(st.h, st.r, t - 1, b))

deterministic_iteration(H, v, steps, b) ==
    With(astype(H, v), LAMBDA c : DeterministicLoop(c.h, c.r, steps, b))

----------------------------------------------------------------------------
(* The model under its constraint and penalty operations. *)

\* the weights randn draws for a new model: entries of both signs
RegWCodes == {5}

InitReg ==
    /\ \E k \in Kinds, wc \in RegWCodes :
            Construct(k, DefaultLayers(k), NewHeap(k, Mat(wc, NVis, NHid, 3, -1)),
                      Mat(1, NBatch, NVis, 2, 0))
    /\ rng = 0
    /\ beta = NoBeta
    /\ ret = 0
    /\ err = Ok
    /\ log = <<>>
    /\ regorder = <<>>
    /\ firstorder = <<>>
    /\ call = NoCall

NextReg ==
    \/ \E cons \in ConsArgs : add_constraints(cons)
    \/ enforce_constraints
    \/ \E method \in {"l2_penalty", "bogus"} : add_weight_decay(1, method)
    \/ \E method \in InitFns \cup {"bogus"} : initialize(vis, method)

SpecReg == InitReg /\ [][NextReg]_vars

----------------------------------------------------------------------------
(* The inputs of the tensor operations: a model whose params a training    *)
(* loop has written, the caller's tensor, beta and the random source.      *)

Betas ==
    {NoBeta}
    \cup {ScalarBeta(x) : x \in 0..MaxBeta}
    \cup {ArrayBeta(Tup([i \in 1..NBatch |-> (i + o) % (MaxBeta + 1)])) : o \in 0..1}

InitCaller ==
    /\ ret = 0
    /\ err = Ok
    /\ log = <<>>
    /\ regorder = <<>>
    /\ firstorder = <<>>
    /\ call = NoCall

Fresh == call.op = "none"

----------------------------------------------------------------------------
(* The fields and the Hopfield free energy, each called once on the inputs. *)

InitField ==
    /\ \E k \in Kinds, wc \in 0..MaxWCode, bvc \in 0..MaxBiasCode,
          bhc \in 0..MaxBiasCode, vc \in 0..MaxVCode, n \in {NVis, NHid} :
            Construct(k, DefaultLayers(k),
                      ModelHeap(k, Mat(wc, NVis, NHid, 3, -1),
                                Mat(bvc, 1, NVis, 2, 0), Mat(bhc, 1, NHid, 2, 0)),
                      Mat(vc, NBatch, n, 3, -1))
    /\ beta \in Betas
    /\ rng = 0
    /\ InitCaller

Returned(op, res) ==
    /\ heap' = res.h
    /\ ret' = res.r
    /\ call' = [op |-> op, steps |-> 0, heap0 |-> heap, rng0 |-> rng]
    /\ UNCHANGED <<kind, layers, params, constraints, penalty, hidden_bias,
                   hidden_scale, rng, vis, beta, err, log, regorder, firstorder>>

\* self._hidden_field(vis, beta), or self._hidden_loc(vis, beta)
hidden_field_call ==
    /\ Fresh
    /\ Len(heap[vis][1]) = NVis
    /\ Returned("hidden_field", HiddenField(heap, vis, beta))

\* self._visible_field(hid, beta), or self._visible_loc(hid, beta)
visible_field_call ==
    /\ Fresh
    /\ Len(heap[vis][1]) = NHid
    /\ Returned("visible_field", VisibleField(heap, vis, beta))

marginal_free_energy_call ==
    /\ Fresh
    /\ kind = "hopfield"
    /\ Len(heap[vis][1]) = NVis
    /\ Returned("marginal_free_energy", Hopfield_marginal_free_energy(heap, vis, beta))

NextField ==
    \/ hidden_field_call
    \/ visible_field_call
    \/ marginal_free_energy_call

SpecField == InitField /\ [][NextField]_vars

----------------------------------------------------------------------------
(* The iteration drivers, each called once on the inputs. *)

\* beta absent, the two ends of the scalars, and one array
IterBetas ==
    {NoBeta, ScalarBeta(0), ScalarBeta(MaxBeta),
     ArrayBeta(Tup([i \in 1..NBatch |-> i % (MaxBeta + 1)]))}

InitIter ==
    /\ \E k \in Kinds, wc \in 0..MaxIterCode, bc \in 0..MaxBiasCode,
          vc \in 0..MaxIterCode :
         \E lay \in LayerChoices(k) :
            Construct(k, lay,
                      ModelHeap(k, Mat(wc, NVis, NHid, 3, -1),
                                Mat(bc, 1, NVis, 2, 0), Mat(bc, 1, NHid, 2, 0)),
                      Mat(vc, NBatch, NVis, 3, -1))
    /\ beta \in IterBetas
    /\ rng \in 0..MaxSeed
    /\ InitCaller

Iterated(op, steps, res, s) ==
    /\ heap' = res.h
    /\ ret' = res.r
    /\ rng' = s
    /\ call' = [op |-> op, steps |-> steps, heap0 |-> heap, rng0 |-> rng]
    /\ UNCHANGED <<kind, layers, params, constraints, penalty, hidden_bias,
                   hidden_scale, vis, beta, err, log, regorder, firstorder>>

markov_chain_call(steps) ==
    /\ Fresh
    /\ \E res \in {markov_chain(heap, vis, steps, beta, rng)} :
            Iterated("markov_chain", steps, res, res.s)

mean_field_iteration_call(steps) ==
    /\ Fresh
    /\ Iterated("mean_field_iteration", steps,
                mean_field_iteration(heap, vis, steps, beta), rng)

deterministic_iteration_call(steps) ==
    /\ Fresh
    /\ Iterated("deterministic_iteration", steps,
                deterministic_iteration(heap, vis, steps, beta), rng)

NextIter ==
    \/ \E steps \in 0..MaxSteps : markov_chain_call(steps)
    \/ \E steps \in 0..MaxSteps : mean_field_iteration_call(steps)
    \/ \E steps \in 0..MaxSteps : deterministic_iteration_call(steps)

SpecIter == InitIter /\ [][NextIter]_vars

----------------------------------------------------------------------------
(* Claims about the constraint and penalty maps. *)

\* C4: every key of constraints and every key of penalty is a key of params,
\* after any sequence of add_constraints (failing ones too), add_weight_decay
\* and enforce_constraints calls on a new model.
C4_KeysAreParams ==
    /\ Keys(constraints) \subseteq DOMAIN params
    /\ DOMAIN penalty \subseteq DOMAIN params

C4_Witness ==
    /\ call.op = "add_constraints"
    /\ err = AssertionError
    /\ constraints # <<>>
    /\ DOMAIN penalty # {}

UnknownKeys(cons) == {i \in DOMAIN cons : cons[i][1] \notin DOMAIN params}

\* C5: add_constraints(map) fails with a DefinitionError when some key of map
\* is not a key of params; when all are, it succeeds and constraints[key] is
\* map[key] for every key of map.
C5_AddConstraints ==
    call.op = "add_constraints" =>
        IF UnknownKeys(call.arg) # {}
        THEN err = DefinitionError
        ELSE /\ err = Ok
             /\ \A i \in DOMAIN call.arg :
                    /\ call.arg[i][1] \in Keys(constraints)
                    /\ Get(constraints, call.arg[i][1]) = call.arg[i][2]

C5_Witness ==
    /\ call.op = "add_constraints"
    /\ Len(call.arg) = 2
    /\ err = Ok
    /\ constraints # call.constraints0

\* C6: initialize(data, method) with a method that is no registered
\* initialization method fails with a ConfigurationError; no initializer and
\* no projection runs and the params keep their values.
C6_UnknownMethodIsConfigurationError ==
    (call.op = "initialize" /\ call.arg[1] \notin InitFns) =>
        /\ err = ConfigurationError
        /\ log = <<>>
        /\ heap = call.heap0

AllNamesRegistered == \A i \in DOMAIN constraints : constraints[i][2] \in ConstraintFns

\* the calls enforce_constraints makes when it walks the keys in this order
CallsInOrder(order) ==
    Tup([i \in DOMAIN order |-> <<Get(constraints, order[i]), params[order[i]]>>])

\* what enforce_constraints leaves: each constrained tensor projected once, the
\* other tensors and the two maps as they were
EnforceFrame ==
    /\ \A a \in DOMAIN heap :
          heap[a] = IF \E k \in Keys(constraints) : params[k] = a
                    THEN Projection(Get(constraints,
                                        CHOOSE k \in Keys(constraints) : params[k] = a),
                                    call.heap0[a])
                    ELSE call.heap0[a]
    /\ constraints = call.constraints0
    /\ penalty = call.penalty0

C10_FailingAddRegistersPrefix ==
    (call.op = "add_constraints" /\ err = AssertionError) =>
        LET cons == call.arg
            first == CHOOSE i \in UnknownKeys(cons) :
                        \A j \in UnknownKeys(cons) : i <= j
            before == {cons[i][1] : i \in 1..(first - 1)}
        IN  /\ UnknownKeys(cons) # {}
            /\ Keys(constraints) = Keys(call.constraints0) \cup before
            /\ \A i \in 1..(first - 1) : Get(constraints, cons[i][1]) = cons[i][2]
            /\ \A k \in Keys(call.constraints0) \ before :
                    Get(constraints, k) = Get(call.constraints0, k)
            /\ heap = call.heap0
            /\ penalty = call.penalty0

C10_Witness ==
    /\ call.op = "add_constraints"
    /\ err = AssertionError
    /\ Len(call.arg) = 2
    /\ call.arg[2][1] \notin DOMAIN params
    /\ call.constraints0 # <<>>
    /\ constraints # call.constraints0

----------------------------------------------------------------------------
(* Claims about the iteration drivers. *)

Drivers == {"markov_chain", "mean_field_iteration", "deterministic_iteration"}

\* the value of the tensor a call returned
Val(res) == res.h[res.r]

\* C1: markov_chain(v, n + m, beta) is markov_chain(markov_chain(v, n, beta),
\* m, beta) when the second call goes on with the random source where the
\* first left it, and markov_chain(v, 0, beta) is v.
C1_ChainComposes ==
    call.op = "markov_chain" =>
        /\ \A n \in 0..call.steps :
              LET first == markov_chain(call.heap0, vis, n, beta, call.rng0)
                  second == markov_chain(first.h, first.r, call.steps - n, beta, first.s)
              IN  /\ Val(second) = heap[ret]
                  /\ second.s = rng
        /\ call.steps = 0 => heap[ret] = call.heap0[vis]

C1_Witness ==
    /\ call.op = "markov_chain"
    /\ call.steps = 2
    /\ beta.tag # "none"
    /\ LET first == markov_chain(call.heap0, vis, 1, beta, call.rng0)
       IN  /\ Val(first) # call.heap0[vis]
           /\ Val(first) # heap[ret]

\* C2: markov_chain, mean_field_iteration and deterministic_iteration leave
\* the caller's tensor and the model's tensors with the values they had, and
\* return another object than the caller's tensor; for 0 steps, one equal to it.
C2_DriversLeaveCallerTensor ==
    call.op \in Drivers =>
        /\ \A a \in DOMAIN call.heap0 : heap[a] = call.heap0[a]
        /\ ret # vis
        /\ call.steps = 0 => heap[ret] = call.heap0[vis]

C2_Witness ==
    /\ call.op = "deterministic_iteration"
    /\ call.steps = MaxSteps
    /\ beta.tag = "ndarray"
    /\ heap[ret] # heap[vis]

IsFixedPoint(step) == Val(step) = call.heap0[vis]

\* C3: a tensor that mean_field_step maps to itself is what
\* mean_field_iteration returns from it, for every number of steps; the same
\* for deterministic_step and deterministic_iteration.
C3_FixedPointsStay ==
    /\ (/\ call.op = "mean_field_iteration"
        /\ IsFixedPoint(mean_field_step(call.heap0, vis, beta)))
            => heap[ret] = call.heap0[vis]
    /\ (/\ call.op = "deterministic_iteration"
        /\ IsFixedPoint(deterministic_step(call.heap0, vis, beta)))
            => heap[ret] = call.heap0[vis]

C3_Witness ==
    /\ call.op = "mean_field_iteration"
    /\ call.steps = MaxSteps
    /\ beta.tag # "none"
    /\ IsFixedPoint(mean_field_step(call.heap0, vis, beta))
    /\ ~IsFixedPoint(mean_field_step(call.heap0, vis, NoBeta))
    /\ heap[params["weights"]] # Zeros(NVis, NHid)

----------------------------------------------------------------------------
(* Claims about the fields and the free energy. *)

\* what beta multiplies example i by: 1 when beta is absent
BetaOrOne(b, i) == IF b.tag = "none" THEN 1 ELSE BetaAt(b, i)

\* beta * (X . M) + bias, entry by entry
ScaledField(X, M, bias, b) ==
    Build(Len(X), Len(M[1]),
          LAMBDA i, j :
            BetaOrOne(b, i) * SumSeq(Tup([k \in 1..Len(M) |-> X[i][k] * M[k][j]]))
            + bias[1][j])

HiddenBiasValue ==
    IF kind = "hopfield" THEN call.heap0[hidden_bias]
    ELSE call.heap0[params["hidden_bias"]]

FieldsAsSpecified ==
    /\ call.op = "hidden_field" =>
          heap[ret] = ScaledField(call.heap0[vis], call.heap0[params["weights"]],
                                  HiddenBiasValue, beta)
    /\ call.op = "visible_field" =>
          heap[ret] = ScaledField(call.heap0[vis],
                                  Transpose(call.heap0[params["weights"]]),
                                  call.heap0[params["visible_bias"]], beta)

\* C8: in every model the hidden and the visible field are
\* beta * (bilinear term) + bias for beta a scalar or a per-example array,
\* and the same with beta = 1 when beta is absent (visible_scale = 0).
C8_BetaScalesBilinearTermOnly == FieldsAsSpecified

\* C8, where the code agrees: every case but a scalar beta given to the
\* Gaussian model, which leaves a beta that is no numpy array out.
C8_ExceptGaussianScalarBeta ==
    ~(kind = "grbm" /\ beta.tag = "scalar") => FieldsAsSpecified

\* C9: the Hopfield marginal_free_energy of example i is
\* -(v_i . W . W^T . v_i) * c_i - v_i . b_v, with c_i = beta_i squared when
\* beta is given and 1 when it is absent; no tensor of the model changes.
C9_HopfieldFreeEnergy ==
    call.op = "marginal_free_energy" =>
        LET V == call.heap0[vis]
            W == call.heap0[params["weights"]]
            bv == call.heap0[params["visible_bias"]]
            proj(i, j) == SumSeq(Tup([k \in 1..NVis |-> V[i][k] * W[k][j]]))
            quad(i) == SumSeq(Tup([j \in 1..NHid |-> proj(i, j) * proj(i, j)]))
            lin(i) == SumSeq(Tup([k \in 1..NVis |-> V[i][k] * bv[1][k]]))
        IN  /\ heap[ret] = Build(1, NBatch, LAMBDA o, i :
                    (0 - quad(i)) * (BetaOrOne(beta, i) * BetaOrOne(beta, i)) - lin(i))
            /\ \A a \in DOMAIN call.heap0 : heap[a] = call.heap0[a]

C9_Witness ==
    /\ call.op = "marginal_free_energy"
    /\ beta.tag = "ndarray"
    /\ beta.v[1] # beta.v[2]
    /\ heap[params["visible_bias"]] # Zeros(1, NVis)
    /\ \A i \in 1..NBatch : heap[ret][1][i] # 0
    /\ heap[ret][1][1] # heap[ret][1][2]

====
